---- MODULE Spec2Model ----
(***************************************************************************)
(* Model of the per-net route reconstruction of cell-move-router:          *)
(* NetTree::new (position catalogue, atomic fragmentation, Kruskal loop    *)
(* over a union-find), NetNode::span and the net emitter (Display for Net),*)
(* from src/src/components.rs and src/src/utilities.rs (Spec); of a        *)
(* UnionFind driven by its public methods (SpecUF); of the identifier      *)
(* codec FactoryID / PrefixParse (SpecCodec); of the grid capacity map and *)
(* the supply records of Chip::read_file (SpecCap); of main (SpecMain);    *)
(* and of the NumRoutes section of Chip::read_file (SpecLoad).             *)
(* Each specification leaves the variables of the others at their idle    *)
(* values.                                                                 *)
(*                                                                         *)
(* Conventions.  Pair = <<row, col>>, Point = <<row, col, lay>>,           *)
(* Route = <<source, target>>.  Option<T> is a sequence of length <= 1:    *)
(* None = <<>>, Some(x) = <<x>>.  A Vec of length n is a function on       *)
(* 0..n-1, so that indices are the source's indices.                       *)
(***************************************************************************)
EXTENDS Integers, Sequences, FiniteSets, TLC

\* ------------------------------------------------------------------ bounds
\* rows and cols of the inputs range over 0..MaxCoord
MaxCoord == 2
\* layers of the inputs range over 1..MaxLay
MaxLay == 2
\* at most MaxSegs raw routes in the segment bag of the net
MaxSegs == 2
\* at most MaxPins connected pins
MaxPins == 2
\* at most MaxItems routes and pins together in one input
MaxItems == 2
\* the emitted routes are loaded again at most MaxPass - 1 times
MaxPass == 2

\* usize::MAX, the start value of the minimum in NetNode::span.  It is only
\* compared, never added to; the value is the largest that the integers of
\* TLC hold.
UsizeMax == 2147483647
\* usize::MIN, the start value of the maximum in NetNode::span.
UsizeMin == 0

VARIABLES
    debug_assertions, \* "on" | "off": the build, "unobserved" until it matters
    conn_pins,        \* Vec<usize>: the pins the net connects (a sequence)
    pin_position,     \* the callback F: pin -> Pair
    segments,         \* HashSet<Route<usize>>: the raw routes of the net
    nodes,            \* NetTree.nodes: Vec<NetNode>
    union_find,       \* the UnionFind of NetTree::new
    uf_cnt,           \* number of unions that returned true
    atomic,           \* Vec<Route>: the result of into_atomic_segments
    cursor,           \* number of atomic routes the Kruskal loop has consumed
    pc,               \* "new" | "loop" | "done" | "emitted" | "panic"
    pass,             \* 1: tree of the input routes, 2..: tree of emitted routes
    output,           \* the lines written by Display for Net
    emitted_edges,    \* planar edges of the tree whose lines were loaded again
    uf_call,          \* the last call on a UnionFind of its own, with its result
    uf_joined,        \* the pairs <<a, b>> for which union(a, b) returned true
    codec_call,       \* the last call of the identifier codec, with its result
    layers,           \* Chip.layers: Vec<Layer>, each with dim and capacity
    cap_call,         \* the last supply record or capacity access, with its result
    cap_records,      \* number of NumNonDefaultSupplyGGrid records read
    main_pc,          \* position of main: "read_file" | "run" | "write_file" | ...
    args,             \* Args: the time limits sec, min and hr
    expired,          \* the time budget has expired during run
    chip_state,       \* the state of the Chip as the optimisation steps left it
    outfile,          \* Option: the state written to the output file
    net_routes,       \* routes: Vec<HashSet<Route>>, the segment bag of every net
    route_call,       \* the last NumRoutes record, with its outcome
    route_records     \* number of NumRoutes records read

\* the state of the components other than NetTree::new and the emitter
uf_ext == <<uf_call, uf_joined>>
codec_ext == <<codec_call>>
cap_ext == <<layers, cap_call, cap_records>>
main_ext == <<main_pc, args, expired, chip_state, outfile>>
load_ext == <<net_routes, route_call, route_records>>
ext_vars == <<uf_ext, codec_ext, cap_ext, main_ext, load_ext>>

vars == <<debug_assertions, conn_pins, pin_position, segments, nodes, union_find,
          uf_cnt, atomic, cursor, pc, pass, output, emitted_edges, ext_vars>>

\* ------------------------------------------------------------ small helpers
None == <<>>
Some(x) == <<x>>
IsSome(opt) == opt # <<>>

\* the empty Vec
EmptyVec == [i \in {} |-> 0]
VecLen(v) == Cardinality(DOMAIN v)
\* a Vec from a sequence
VecOf(s) == [i \in 0..(Len(s) - 1) |-> s[i + 1]]

Min2(a, b) == IF a < b THEN a ELSE b
Max2(a, b) == IF a > b THEN a ELSE b

\* all orders in which a hash container may iterate over the set S
Orders(S) == {f \in [1..Cardinality(S) -> S] : \A i, j \in DOMAIN f : f[i] = f[j] => i = j}

\* Vec::sort of a set of distinct naturals
RECURSIVE SortedSeq(_)
SortedSeq(S) ==
    IF S = {} THEN <<>>
    ELSE LET m == CHOOSE x \in S : \A y \in S : x <= y
         IN <<m>> \o SortedSeq(S \ {m})

\* ------------------------------------------------------ Pair, Point, Route
row(pt) == pt[1]
col(pt) == pt[2]
lay(pt) == pt[3]
flatten(pt) == <<pt[1], pt[2]>>
with(pair, l) == <<pair[1], pair[2], l>>
source(route) == route[1]
target(route) == route[2]

vector(route) ==
    <<row(target(route)) - row(source(route)),
      col(target(route)) - col(source(route)),
      lay(target(route)) - lay(source(route))>>

\* towards that takes a growing row for Left and a falling row for Right
towards_mirrored(route) ==
    LET v == vector(route) IN
    IF v = <<0, 0, 0>> THEN "unreachable"
    ELSE IF v[2] = 0 /\ v[3] = 0 THEN (IF v[1] > 0 THEN "Left" ELSE "Right")
    ELSE IF v[1] = 0 /\ v[3] = 0 THEN (IF v[2] > 0 THEN "Up" ELSE "Down")
    ELSE IF v[1] = 0 /\ v[2] = 0 THEN (IF v[3] > 0 THEN "Top" ELSE "Bottom")
    ELSE "unreachable"

towards(route) ==
    LET v == vector(route) IN
    IF v = <<0, 0, 0>> THEN "unreachable"
    ELSE IF v[2] = 0 /\ v[3] = 0 THEN (IF v[1] > 0 THEN "Right" ELSE "Left")
    ELSE IF v[1] = 0 /\ v[3] = 0 THEN (IF v[2] > 0 THEN "Up" ELSE "Down")
    ELSE IF v[1] = 0 /\ v[2] = 0 THEN (IF v[3] > 0 THEN "Top" ELSE "Bottom")
    ELSE "unreachable"

inv(t) ==
    CASE t = "Up" -> "Down"
      [] t = "Down" -> "Up"
      [] t = "Left" -> "Right"
      [] t = "Right" -> "Left"
      [] t = "Top" -> "Bottom"
      [] t = "Bottom" -> "Top"

Planar == {"Up", "Down", "Left", "Right"}

\* ---------------------------------------------------------------- UnionFind
\* UnionFind::new(size): every element is its own head, height 0
UnionFind_new(size) == [idx \in 0..(size - 1) |-> [head |-> idx, height |-> 0]]

UnionFind_len(uf) == VecLen(uf)

\* UnionFind::get: None when the index is out of bounds
UnionFind_get(uf, index) == IF index \in DOMAIN uf THEN Some(uf[index]) ELSE None

\* find that stops at the head of index
find_parent(uf, index) ==
    IF UnionFind_get(uf, index) = None THEN None ELSE Some(uf[index].head)

\* UnionFind::find: read-only walk to the root
RECURSIVE find(_, _)
find(uf, index) ==
    IF UnionFind_get(uf, index) = None THEN None
    ELSE LET head == uf[index].head IN
         IF head = index THEN Some(index) ELSE find(uf, head)

\* find_mut that rewrites the head of index only
find_mut_first_only(uf, index) ==
    IF find(uf, index) = None THEN [uf |-> uf, ans |-> None]
    ELSE [uf |-> [uf EXCEPT ![index].head = find(uf, index)[1]],
          ans |-> find(uf, index)]

\* UnionFind::find_mut: walk to the root, then rewrite the heads on the way
\* back.  The result is the new structure and the Option<usize> returned.
RECURSIVE find_mut(_, _)
find_mut(uf, index) ==
    IF UnionFind_get(uf, index) = None THEN [uf |-> uf, ans |-> None]
    ELSE LET head == uf[index].head IN
         IF head = index THEN [uf |-> uf, ans |-> Some(index)]
         ELSE LET r == find_mut(uf, head) IN
              IF r.ans = None THEN r
              ELSE [uf |-> [r.uf EXCEPT ![index].head = r.ans[1]], ans |-> r.ans]

\* UnionFind::grouped
grouped(uf, a, b) ==
    IF find(uf, a) = None \/ find(uf, b) = None THEN None
    ELSE Some(find(uf, a) = find(uf, b))

\* join that gives the higher root the height of the lower one
join_rank_lowered(uf, a, b) ==
    IF UnionFind_get(uf, a) = None \/ UnionFind_get(uf, b) = None
    THEN [uf |-> uf, ans |-> None]
    ELSE LET heighta == uf[a].height
             heightb == uf[b].height
         IN IF heighta > heightb
            THEN [uf |-> [uf EXCEPT ![b].head = a, ![a].height = heightb],
                  ans |-> Some(TRUE)]
            ELSE IF heighta = heightb
                 THEN [uf |-> [uf EXCEPT ![a].head = b, ![b].height = @ + 1],
                       ans |-> Some(TRUE)]
                 ELSE [uf |-> [uf EXCEPT ![a].head = b], ans |-> Some(TRUE)]

\* UnionFind::join: hangs the lower of the two roots under the other one
join(uf, a, b) ==
    IF UnionFind_get(uf, a) = None \/ UnionFind_get(uf, b) = None
    THEN [uf |-> uf, ans |-> None]
    ELSE LET heighta == uf[a].height
             heightb == uf[b].height
         IN IF heighta > heightb
            THEN [uf |-> [uf EXCEPT ![b].head = a], ans |-> Some(TRUE)]
            ELSE IF heighta = heightb
                 THEN [uf |-> [uf EXCEPT ![a].head = b, ![b].height = @ + 1],
                       ans |-> Some(TRUE)]
                 ELSE [uf |-> [uf EXCEPT ![a].head = b], ans |-> Some(TRUE)]

\* union_checked that returns Some(true) without joining the two roots
union_checked_skip_join(uf, a, b) ==
    LET ra == find_mut(uf, a) IN
    IF ra.ans = None THEN [uf |-> ra.uf, ret |-> None]
    ELSE LET rb == find_mut(ra.uf, b) IN
         IF rb.ans = None THEN [uf |-> rb.uf, ret |-> None]
         ELSE [uf |-> rb.uf, ret |-> Some(ra.ans # rb.ans)]

\* UnionFind::union_checked: Some(true) when a and b were joined by this call,
\* Some(false) when they already had the same head, None out of bounds
union_checked(uf, a, b) ==
    LET ra == find_mut(uf, a) IN
    IF ra.ans = None THEN [uf |-> ra.uf, ret |-> None]
    ELSE LET rb == find_mut(ra.uf, b) IN
         IF rb.ans = None THEN [uf |-> rb.uf, ret |-> None]
         ELSE LET heada == ra.ans[1]
                  headb == rb.ans[1]
              IN IF heada = headb THEN [uf |-> rb.uf, ret |-> Some(FALSE)]
                 ELSE LET j == join(rb.uf, heada, headb) IN
                      IF j.ans = None THEN [uf |-> j.uf, ret |-> None]
                      ELSE [uf |-> j.uf, ret |-> Some(TRUE)]

\* done that accepts at most one distinct root
UnionFind_done_at_most_one(uf) == 1 >= Cardinality({find(uf, idx) : idx \in DOMAIN uf})

\* UnionFind::done: exactly one distinct root over all elements
UnionFind_done(uf) == 1 = Cardinality({find(uf, idx) : idx \in DOMAIN uf})

\* ------------------------------------------------------------------ NetNode
\* a NetNode without neighbours, as NetTree::new creates it
NetNode(id, position) ==
    [id |-> id, position |-> position,
     up |-> None, down |-> None, left |-> None, right |-> None]

Pointer(index, height) == [index |-> index, height |-> height]

\* NetNode::index: the slot of a planar direction
index(node, t) ==
    CASE t = "Up" -> node.up
      [] t = "Down" -> node.down
      [] t = "Left" -> node.left
      [] t = "Right" -> node.right

\* NetNode::neightbors
neightbors(node) == <<node.up, node.down, node.left, node.right>>

\* NetNode::span: fold of (min, max) over the heights of the pointers that
\* are set, from (usize::MAX, usize::MIN)
RECURSIVE span_fold(_, _)
span_fold(acc, ptrs) ==
    IF ptrs = <<>> THEN acc
    ELSE LET opt == Head(ptrs) IN
         IF opt = None THEN span_fold(acc, Tail(ptrs))
         ELSE span_fold(<<Min2(acc[1], opt[1].height), Max2(acc[2], opt[1].height)>>,
                        Tail(ptrs))

span(node) == span_fold(<<UsizeMax, UsizeMin>>, neightbors(node))

\* ------------------------------------------------------------------ NetTree
\* positions_fold with the entry kept once it exists (or_insert(idx) alone)
RECURSIVE positions_fold_first_wins(_, _)
positions_fold_first_wins(hmap, items) ==
    IF items = <<>> THEN hmap
    ELSE LET position == Head(items)[1]
             idx == Head(items)[2]
             value == IF position \in DOMAIN hmap THEN hmap[position] ELSE idx
         IN positions_fold_first_wins(
                [k \in DOMAIN hmap \cup {position} |->
                    IF k = position THEN value ELSE hmap[k]],
                Tail(items))

\* NetTree::positions: the fold over the endpoints of the segments (value
\* None) chained with the pins (value Some(idx)), in this order; an entry is
\* created with None and overwritten only by a Some.
RECURSIVE positions_fold(_, _)
positions_fold(hmap, items) ==
    IF items = <<>> THEN hmap
    ELSE LET position == Head(items)[1]
             idx == Head(items)[2]
             entry == IF position \in DOMAIN hmap THEN hmap[position] ELSE None
             value == IF IsSome(idx) THEN idx ELSE entry
         IN positions_fold(
                [k \in DOMAIN hmap \cup {position} |->
                    IF k = position THEN value ELSE hmap[k]],
                Tail(items))

\* the items of segs_iter for one iteration order of the segment set
RECURSIVE segs_items(_)
segs_items(segs) ==
    IF segs = <<>> THEN <<>>
    ELSE <<<<flatten(source(Head(segs))), None>>, <<flatten(target(Head(segs))), None>>>>
         \o segs_items(Tail(segs))

pins_items(pins, pin_pos) == [i \in 1..Len(pins) |-> <<pin_pos[pins[i]], Some(pins[i])>>]

positions(pins, segs, pin_pos) ==
    positions_fold([k \in {} |-> None], segs_items(segs) \o pins_items(pins, pin_pos))

\* NetTree::break_single_segment: the fragments of route between consecutive
\* entries of the sorted bucket pos that lie in [min, max]
windows2(s) == [i \in 1..(IF Len(s) >= 2 THEN Len(s) - 1 ELSE 0) |-> <<s[i], s[i + 1]>>]

\* break_single_segment that keeps the route whole, from its lower end
break_single_segment_whole(route, pos, dir) ==
    LET swap == IF dir = "Horizontal"
                THEN row(source(route)) > row(target(route))
                ELSE col(source(route)) > col(target(route))
    IN IF swap THEN <<<<target(route), source(route)>>>> ELSE <<route>>

break_single_segment(route, pos, dir) ==
    LET swap == IF dir = "Horizontal"
                THEN row(source(route)) > row(target(route))
                ELSE col(source(route)) > col(target(route))
        src == IF swap THEN target(route) ELSE source(route)
        tgt == IF swap THEN source(route) ELSE target(route)
        min == IF dir = "Horizontal" THEN row(src) ELSE col(src)
        max == IF dir = "Horizontal" THEN row(tgt) ELSE col(tgt)
        in_range(elem) == elem >= min /\ elem <= max
        filtered == SelectSeq(pos, in_range)
        all_pairs == windows2(filtered)
    IN [i \in 1..Len(all_pairs) |->
          IF dir = "Horizontal"
          THEN <<<<all_pairs[i][1], col(src), lay(src)>>, <<all_pairs[i][2], col(tgt), lay(tgt)>>>>
          ELSE <<<<row(src), all_pairs[i][1], lay(src)>>, <<row(tgt), all_pairs[i][2], lay(tgt)>>>>]

\* the buckets of into_atomic_segments: the sorted cols of the nodes of a
\* row, the sorted rows of the nodes of a col
pos_by_row(keys, r) == SortedSeq({k[2] : k \in {q \in keys : q[1] = r}})
pos_by_col(keys, c) == SortedSeq({k[1] : k \in {q \in keys : q[2] = c}})

\* NetTree::into_atomic_segments, for one iteration order segs of the segment
\* set: Top/Bottom routes are dropped, every other route is broken by the
\* bucket of its col (Left/Right) or of its row (Up/Down)
RECURSIVE into_atomic_segments(_, _)
into_atomic_segments(segs, keys) ==
    IF segs = <<>> THEN <<>>
    ELSE LET route == Head(segs)
             t == towards(route)
             rest == into_atomic_segments(Tail(segs), keys)
         IN IF t \in {"Left", "Right"}
            THEN break_single_segment(route, pos_by_col(keys, col(source(route))),
                                      "Horizontal") \o rest
            ELSE IF t \in {"Up", "Down"}
            THEN break_single_segment(route, pos_by_row(keys, row(source(route))),
                                      "Vertical") \o rest
            ELSE rest

\* NetTree::connect: sindex gets the pointer to oindex in slot diff, oindex
\* the pointer to sindex in the opposite slot, both with the same height
set_node(ns, sindex, oindex, height, diff) ==
    LET some_ptr == Some(Pointer(oindex, height)) IN
    CASE diff = "Up" -> [ns EXCEPT ![sindex].up = some_ptr]
      [] diff = "Down" -> [ns EXCEPT ![sindex].down = some_ptr]
      [] diff = "Left" -> [ns EXCEPT ![sindex].left = some_ptr]
      [] diff = "Right" -> [ns EXCEPT ![sindex].right = some_ptr]

\* connect that sets the same slot in both nodes
connect_same_slot(ns, sindex, oindex, height, diff) ==
    set_node(set_node(ns, sindex, oindex, height, diff), oindex, sindex, height, diff)

connect(ns, sindex, oindex, height, diff) ==
    set_node(set_node(ns, sindex, oindex, height, diff), oindex, sindex, height, inv(diff))

\* position_to_local of NetTree::new: the index of the node at a position
position_to_local(ns, position) == CHOOSE i \in DOMAIN ns : ns[i].position = position

\* ---------------------------------------------------------------------- Net
\* a string is the sequence of its characters
Digits == <<"0", "1", "2", "3", "4", "5", "6", "7", "8", "9">>

\* Display for usize: the decimal digits, no sign and no leading zero
RECURSIVE usize_to_string(_)
usize_to_string(n) ==
    IF n < 10 THEN <<Digits[n + 1]>>
    ELSE usize_to_string(n \div 10) \o <<Digits[(n % 10) + 1]>>

\* from_numeric without the offset of one
from_numeric_no_offset(prefix, id) == prefix \o usize_to_string(id)

\* FactoryID::from_numeric below usize::MAX: the prefix followed by the
\* digits of id + 1
from_numeric(prefix, id) == prefix \o usize_to_string(id + 1)

\* the scalar fields of the Net whose tree is modelled
net == [id |-> 0, min_layer |-> 0]

\* one line "<source> <target> <name>" of the output
Line(route, name) == [route |-> route, name |-> name]

Directions == <<"Up", "Down", "Left", "Right">>

\* what is left of the output when fmt_recursive does not return
StackOverflow == Line(<<>>, <<"stack overflow">>)

\* Net::fmt_recursive: the lines written for node when it was entered in
\* direction.  The source recurses without a limit; a recursion deeper than
\* the number of nodes has come back to a node and never ends, which is the
\* line StackOverflow here.
RECURSIVE fmt_recursive(_, _, _, _, _)
RECURSIVE fmt_recursive_from(_, _, _, _, _, _)
\* fmt_recursive that forgets the direction it arrived in
fmt_recursive_any_direction(node, list, name, direction, fuel) ==
    fmt_recursive_from(node, list, name, "Top", fuel, 1)

fmt_recursive(node, list, name, direction, fuel) ==
    fmt_recursive_from(node, list, name, direction, fuel, 1)

fmt_recursive_from(node, list, name, direction, fuel, d) ==
    IF d > Len(Directions) THEN <<>>
    ELSE LET dir == Directions[d]
             rest == fmt_recursive_from(node, list, name, direction, fuel, d + 1)
         IN IF dir = inv(direction) THEN rest
            ELSE IF index(node, dir) = None THEN rest
            ELSE IF fuel = 0 THEN <<StackOverflow>>
            ELSE LET ptr == index(node, dir)[1]
                     nearby_node == list[ptr.index]
                     src == with(node.position, ptr.height)
                     tgt == with(nearby_node.position, ptr.height)
                     below == fmt_recursive(nearby_node, list, name, dir, fuel - 1)
                 IN IF StackOverflow \in {below[i] : i \in DOMAIN below}
                    THEN <<StackOverflow>>
                    ELSE <<Line(<<src, tgt>>, name)>> \o below \o rest

\* the first loop of Display for Net: one line per node, in node order, from
\* (row, col, min) to (row, col, max) of the node's span
span_lines(list, name) ==
    [i \in 1..VecLen(list) |->
        LET node == list[i - 1]
            sp == span(node)
        IN Line(<<with(node.position, sp[1]), with(node.position, sp[2])>>, name)]

\* the second loop of Display for Net: fmt_recursive from the first node,
\* once for each of the four directions
RECURSIVE walk_lines_from(_, _, _)
walk_lines_from(list, name, d) ==
    IF VecLen(list) = 0 \/ d > Len(Directions) THEN <<>>
    ELSE fmt_recursive(list[0], list, name, Directions[d], VecLen(list))
         \o walk_lines_from(list, name, d + 1)

walk_lines(list, name) == walk_lines_from(list, name, 1)

\* Display for Net
fmt(list, id) ==
    LET name == from_numeric(<<"N">>, id) IN span_lines(list, name) \o walk_lines(list, name)

\* ------------------------------------------------------------ the inputs
Pairs == (0..MaxCoord) \X (0..MaxCoord)
Points == (0..MaxCoord) \X (0..MaxCoord) \X (1..MaxLay)

\* the routes of the data model: axis-aligned, source # target
Routes == {r \in Points \X Points : towards(r) # "unreachable"}

RECURSIVE SetsUpTo(_, _)
SetsUpTo(S, k) ==
    IF k = 0 THEN {{}}
    ELSE LET P == SetsUpTo(S, k - 1) IN P \cup {p \cup {x} : p \in P, x \in S}

\* the planar edges of a tree, each as the route from its lower end
tree_edges(ns) ==
    {<<with(ns[i].position, index(ns[i], t)[1].height),
       with(ns[index(ns[i], t)[1].index].position, index(ns[i], t)[1].height)>> :
        <<i, t>> \in {x \in (DOMAIN ns) \X {"Up", "Right"} : index(ns[x[1]], x[2]) # None}}

\* ------------------------------------------------------------------ actions
\* no call on a UnionFind of its own has been made
NoCall == [op |-> "none", a |-> 0, b |-> 0, ret |-> <<>>, before |-> <<>>, joined |-> {}]

\* the components other than NetTree::new and the emitter are not in use
UfIdle ==
    /\ uf_call = NoCall
    /\ uf_joined = {}

CodecIdle == codec_call = NoCall

CapIdle ==
    /\ layers = EmptyVec
    /\ cap_call = NoCall
    /\ cap_records = 0

MainIdle ==
    /\ main_pc = "idle"
    /\ args = <<>>
    /\ expired = FALSE
    /\ chip_state = 0
    /\ outfile = <<>>

LoadIdle ==
    /\ net_routes = EmptyVec
    /\ route_call = NoCall
    /\ route_records = 0

ExtIdle == UfIdle /\ CodecIdle /\ CapIdle /\ MainIdle /\ LoadIdle

\* the arguments of NetTree::new: the connected pins 0..k-1 with any
\* positions and at most MaxSegs routes of the data model, MaxItems pins and
\* routes together
Init ==
    /\ debug_assertions = "unobserved"
    /\ \E k \in 0..MaxPins :
          /\ conn_pins = [i \in 1..k |-> i - 1]
          /\ pin_position \in [0..(k - 1) -> Pairs]
          /\ segments \in SetsUpTo(Routes, IF MaxItems - k < MaxSegs THEN
                                              (IF MaxItems - k < 0 THEN 0 ELSE MaxItems - k)
                                           ELSE MaxSegs)
          /\ k <= MaxItems
    /\ nodes = EmptyVec
    /\ union_find = EmptyVec
    /\ uf_cnt = 0
    /\ atomic = <<>>
    /\ cursor = 0
    /\ pc = "new"
    /\ pass = 1
    /\ output = <<>>
    /\ emitted_edges = {}
    /\ ExtIdle

\* NetTree::new up to the Kruskal loop: the position catalogue, the nodes in
\* the iteration order of the catalogue, the union-find and the atomic
\* segments in the iteration order of the segment set.  A route that is
\* neither planar nor Top/Bottom ends in unreachable!().  pin_position is
\* total on conn_pins, so expect("Pin not stored") does not fail; the debug
\* assertions on the number of unique positions hold of every catalogue.
New_Begin ==
    /\ pc = "new"
    /\ IF \E r \in segments : towards(r) = "unreachable"
       THEN /\ pc' = "panic"
            /\ UNCHANGED <<nodes, union_find, uf_cnt, atomic, cursor>>
       ELSE \E seg_order \in Orders(segments) :
              LET position_to_global == positions(conn_pins, seg_order, pin_position)
                  key_positions == DOMAIN position_to_global
              IN \E node_order \in Orders(key_positions) :
                   /\ nodes' = [i \in 0..(Len(node_order) - 1) |->
                                  NetNode(position_to_global[node_order[i + 1]],
                                          node_order[i + 1])]
                   /\ union_find' = UnionFind_new(Len(node_order))
                   /\ uf_cnt' = 0
                   /\ atomic' = into_atomic_segments(seg_order, key_positions)
                   /\ cursor' = 0
                   /\ pc' = "loop"
    /\ UNCHANGED <<debug_assertions, conn_pins, pin_position, segments, pass, output,
                   emitted_edges>>
    /\ UNCHANGED ext_vars

\* one iteration of the Kruskal loop of NetTree::new; union_find keeps the
\* path compression of union also when union returns false
New_Loop ==
    /\ pc = "loop"
    /\ cursor < Len(atomic)
    /\ LET route == atomic[cursor + 1]
           t == towards(route)
           height == lay(source(route))
           source_idx == position_to_local(nodes, flatten(source(route)))
           target_idx == position_to_local(nodes, flatten(target(route)))
           u == union_checked(union_find, source_idx, target_idx)
       IN /\ union_find' = u.uf
          /\ IF u.ret = None \/ t \notin Planar
             THEN /\ pc' = "panic"
                  /\ UNCHANGED <<uf_cnt, nodes>>
             ELSE /\ pc' = "loop"
                  /\ IF u.ret = Some(TRUE)
                     THEN /\ uf_cnt' = uf_cnt + 1
                          /\ nodes' = connect(nodes, source_idx, target_idx, height, t)
                     ELSE UNCHANGED <<uf_cnt, nodes>>
    /\ cursor' = cursor + 1
    /\ UNCHANGED <<debug_assertions, conn_pins, pin_position, segments, atomic, pass,
                   output, emitted_edges>>
    /\ UNCHANGED ext_vars

\* the end of NetTree::new: the two debug assertions, then the tree is
\* returned.  A build with debug assertions panics when one of them fails, a
\* release build does not evaluate them.  Which build runs is fixed before
\* the run; the model fixes it at the first assertion that fails, the only
\* place where the two builds differ.
New_End ==
    /\ pc = "loop"
    /\ cursor = Len(atomic)
    /\ IF UnionFind_done(union_find) /\ uf_cnt + 1 = VecLen(nodes)
       THEN /\ pc' = "done"
            /\ UNCHANGED debug_assertions
       ELSE \E build \in (IF debug_assertions = "unobserved" THEN {"on", "off"}
                          ELSE {debug_assertions}) :
              /\ debug_assertions' = build
              /\ pc' = IF build = "on" THEN "panic" ELSE "done"
    /\ UNCHANGED <<conn_pins, pin_position, segments, nodes,
                   union_find, uf_cnt, atomic, cursor, pass, output, emitted_edges>>
    /\ UNCHANGED ext_vars

\* Display for Net: the span lines, then the walk from the first node
Emit ==
    /\ pc = "done"
    /\ output' = fmt(nodes, net.id)
    /\ pc' = "emitted"
    /\ UNCHANGED <<debug_assertions, conn_pins, pin_position, segments, nodes,
                   union_find, uf_cnt, atomic, cursor, pass, emitted_edges>>
    /\ UNCHANGED ext_vars

\* the lines of the output become the segment bag of the same net, whose
\* tree is then built again with the same pins
Reload ==
    /\ pc = "emitted"
    /\ pass < MaxPass
    /\ segments' = {output[i].route : i \in DOMAIN output}
    /\ emitted_edges' = tree_edges(nodes)
    /\ pass' = pass + 1
    /\ pc' = "new"
    /\ nodes' = EmptyVec
    /\ union_find' = EmptyVec
    /\ uf_cnt' = 0
    /\ atomic' = <<>>
    /\ cursor' = 0
    /\ output' = <<>>
    /\ UNCHANGED <<debug_assertions, conn_pins, pin_position>>
    /\ UNCHANGED ext_vars

Next == New_Begin \/ New_Loop \/ New_End \/ Emit \/ Reload

Spec == Init /\ [][Next]_vars

\* ------------------------------------------------- what the claims speak of
\* the tree under construction or built from the routes of the input
TreeExists == pc \in {"loop", "done", "emitted"}
TreeBuilt == pc \in {"done", "emitted"}

\* the indices the pointers of node i point to
Neighbours(ns, i) == {index(ns[i], t)[1].index : t \in {u \in Planar : index(ns[i], u) # None}}

\* the indices reachable from the set S of indices through planar pointers
RECURSIVE Closure(_, _)
Closure(ns, S) ==
    LET T == S \cup UNION {Neighbours(ns, i) : i \in S}
    IN IF T = S THEN S ELSE Closure(ns, T)

Components(ns) == {Closure(ns, {i}) : i \in DOMAIN ns}

\* the pointer pairs of a tree, each as the set of its two indices
PointerPairs(ns) == UNION {{{i, j} : j \in Neighbours(ns, i)} : i \in DOMAIN ns}

HasPointer(node) == \E t \in Planar : index(node, t) # None

\* the positions of the input: flattened endpoints of routes, positions of pins
EndpointPositions == UNION {{flatten(source(r)), flatten(target(r))} : r \in segments}
PinPositions == {pin_position[conn_pins[i]] : i \in DOMAIN conn_pins}
PinsAt(position) == {conn_pins[i] : i \in {k \in DOMAIN conn_pins :
                                             pin_position[conn_pins[k]] = position}}

\* position c lies strictly between positions a and b on their common line
StrictlyBetween(c, a, b) ==
    \/ /\ a[1] = b[1] /\ c[1] = a[1]
       /\ Min2(a[2], b[2]) < c[2] /\ c[2] < Max2(a[2], b[2])
    \/ /\ a[2] = b[2] /\ c[2] = a[2]
       /\ Min2(a[1], b[1]) < c[1] /\ c[1] < Max2(a[1], b[1])

NodePositions == {nodes[i].position : i \in DOMAIN nodes}

\* ------------------------------------------------------------------- claims
\* C1: pointer symmetry.  In every state of NetTree::new, hence after every
\* connect step and in the returned tree: if slot d of node A holds
\* Pointer{B, h} then the opposite slot of B holds Pointer{A, h}.
C1_PointerSymmetry ==
    \A i \in DOMAIN nodes : \A d \in Planar :
        index(nodes[i], d) # None =>
            LET ptr == index(nodes[i], d)[1] IN
            /\ ptr.index \in DOMAIN nodes
            /\ index(nodes[ptr.index], inv(d)) = Some(Pointer(i, ptr.height))

\* a connect step has installed a pair and a later union has returned false
C1_Witness == pc = "loop" /\ pass = 1 /\ uf_cnt >= 1 /\ cursor > uf_cnt

\* C2: tree shape.  A tree returned over n >= 1 node positions has n - 1
\* unions that returned true, n - 1 pointer pairs, no cycle and exactly one
\* component.
C2_TreeShape ==
    (pc = "done" /\ pass = 1 /\ VecLen(nodes) >= 1) =>
        /\ uf_cnt = VecLen(nodes) - 1
        /\ Cardinality(PointerPairs(nodes)) = VecLen(nodes) - 1
        /\ Cardinality(Components(nodes)) = 1

\* C3: a net whose union-find is not a single component after the Kruskal
\* loop never comes back from NetTree::new as a tree.
C3_DisconnectedNotReturned ==
    (pc = "done" /\ pass = 1) => UnionFind_done(union_find)

C5_AtomicMinimality ==
    (TreeExists /\ pass = 1) =>
        /\ \A i \in DOMAIN nodes : \A j \in Neighbours(nodes, i) :
              /\ \/ nodes[i].position[1] = nodes[j].position[1]
                 \/ nodes[i].position[2] = nodes[j].position[2]
              /\ \A k \in DOMAIN nodes :
                    ~StrictlyBetween(nodes[k].position, nodes[i].position, nodes[j].position)
        /\ \A a \in DOMAIN atomic : \A k \in DOMAIN nodes :
              ~StrictlyBetween(nodes[k].position, flatten(source(atomic[a])),
                               flatten(target(atomic[a])))

\* a built tree in which a raw route had a node strictly between its ends and
\* both of its fragments were connected
C5_Witness ==
    /\ pc = "done" /\ pass = 1 /\ uf_cnt >= 2
    /\ \E r \in segments : \E k \in DOMAIN nodes :
          StrictlyBetween(nodes[k].position, flatten(source(r)), flatten(target(r)))

\* the raw routes are all Top/Bottom links at the one planar position pos,
\* and so are the pins, if any
VerticalOnlyAt(pos) ==
    /\ segments # {}
    /\ \A r \in segments :
          towards(r) \in {"Top", "Bottom"} /\ flatten(source(r)) = pos
    /\ \A i \in DOMAIN conn_pins : pin_position[conn_pins[i]] = pos

\* the lowest and the highest layer the raw routes touch
LinkLays == UNION {{lay(source(r)), lay(target(r))} : r \in segments}
LinkSpan == <<CHOOSE l \in LinkLays : \A m \in LinkLays : l <= m,
              CHOOSE l \in LinkLays : \A m \in LinkLays : l >= m>>

\* C6: vertical only.  A net whose routes are only Top/Bottom links at one
\* position has one node, at that position, and span() of this node is the
\* (min lay, max lay) of the links.
C6_VerticalOnlySpan ==
    \A pos \in Pairs :
        (pc = "done" /\ pass = 1 /\ VerticalOnlyAt(pos)) =>
            /\ VecLen(nodes) = 1
            /\ nodes[0].position = pos
            /\ span(nodes[0]) = LinkSpan

\* a Top/Bottom route at the position of pin p whose layers lie in the span
\* of the node at that position
CoveredBySpan(p) ==
    \E i \in DOMAIN nodes : \E r \in segments :
        /\ nodes[i].position = pin_position[p]
        /\ towards(r) \in {"Top", "Bottom"}
        /\ flatten(source(r)) = pin_position[p]
        /\ span(nodes[i])[1] <= Min2(lay(source(r)), lay(target(r)))
        /\ Max2(lay(source(r)), lay(target(r))) <= span(nodes[i])[2]

\* C7: vertical coverage, for the trees whose union-find is done (those of a
\* connected routing): every connected pin p has a node with id Some(p)
\* that nodes[0] reaches through planar pointers, or is covered by span().
C7_PinCoverage ==
    (pc = "done" /\ pass = 1 /\ UnionFind_done(union_find)) =>
        \A k \in DOMAIN conn_pins :
            \/ \E i \in Closure(nodes, {0}) : nodes[i].id = Some(conn_pins[k])
            \/ CoveredBySpan(conn_pins[k])

\* the lines of the output by their shape
IsSpanLine(line) == flatten(source(line.route)) = flatten(target(line.route))
IsWalkLine(line) == ~IsSpanLine(line)

\* the set of the atomic segments of into_atomic_segments
AtomicSet == {atomic[i] : i \in DOMAIN atomic}

\* C8: load/dump round trip.  When the lines emitted for a tree are loaded
\* as the routes of the same net, NetTree::new does not fail on them and its
\* atomic segments are the edges of the emitted tree.
C8_RoundTrip ==
    pass = 2 =>
        /\ pc # "panic"
        /\ pc \in {"loop", "done", "emitted"} => AtomicSet = emitted_edges

\* the lines of the output that run along the pointer pair {i, j}
EdgeLines(i, j) ==
    {k \in DOMAIN output :
        {flatten(source(output[k].route)), flatten(target(output[k].route))}
            = {nodes[i].position, nodes[j].position}}

\* C9: tree walk.  In the output of a tree of a connected routing every
\* pointer pair has exactly one line, and every walk line runs along a pair.
C9_EdgeOnce ==
    (pc = "emitted" /\ pass = 1 /\ UnionFind_done(union_find)) =>
        /\ \A i \in DOMAIN nodes : \A j \in Neighbours(nodes, i) :
              Cardinality(EdgeLines(i, j)) = 1
        /\ \A k \in DOMAIN output :
              IsWalkLine(output[k]) =>
                  \E i \in DOMAIN nodes : \E j \in Neighbours(nodes, i) : k \in EdgeLines(i, j)

\* the span lines of the output at a position
SpanLinesAt(position) ==
    {k \in DOMAIN output :
        IsSpanLine(output[k]) /\ flatten(source(output[k].route)) = position}

\* C10: span lines.  A node with a pointer has one span line, a node without
\* pointer has none, and no span line comes after a walk line.
C10_SpanLines ==
    (pc = "emitted" /\ pass = 1 /\ UnionFind_done(union_find)) =>
        /\ \A i \in DOMAIN nodes :
              Cardinality(SpanLinesAt(nodes[i].position))
                  = IF HasPointer(nodes[i]) THEN 1 ELSE 0
        /\ \A k, l \in DOMAIN output :
              (IsWalkLine(output[k]) /\ IsSpanLine(output[l])) => l < k

\* ------------------------------------------------ NetTree::new as a function
\* the Kruskal loop of NetTree::new from route number i of atomic on: the
\* nodes, the union-find and the count it ends with, panic when the loop
\* does not end
RECURSIVE kruskal(_, _, _, _, _)
kruskal(ns, uf, cnt, routes, i) ==
    IF i > Len(routes) THEN [nodes |-> ns, union_find |-> uf, uf_cnt |-> cnt, panic |-> FALSE]
    ELSE LET route == routes[i]
             t == towards(route)
             height == lay(source(route))
             source_idx == position_to_local(ns, flatten(source(route)))
             target_idx == position_to_local(ns, flatten(target(route)))
             u == union_checked(uf, source_idx, target_idx)
         IN IF u.ret = None \/ t \notin Planar
            THEN [nodes |-> ns, union_find |-> u.uf, uf_cnt |-> cnt, panic |-> TRUE]
            ELSE IF u.ret = Some(TRUE)
                 THEN kruskal(connect(ns, source_idx, target_idx, height, t), u.uf,
                              cnt + 1, routes, i + 1)
                 ELSE kruskal(ns, u.uf, cnt, routes, i + 1)

\* NetTree::new when the segment set iterates in seg_order and the position
\* catalogue in the order that node_order picks
NetTree_new(pins, seg_order, node_order, pin_pos) ==
    LET position_to_global == positions(pins, seg_order, pin_pos)
        key_positions == DOMAIN position_to_global
        ns == [i \in 0..(Len(node_order) - 1) |->
                  NetNode(position_to_global[node_order[i + 1]], node_order[i + 1])]
    IN kruskal(ns, UnionFind_new(Len(node_order)), 0,
               into_atomic_segments(seg_order, key_positions), 1)

\* what a run of NetTree::new and the emitter writes in a build with
\* (build = "on") or without debug assertions: the lines of the output, or
\* no output at all after a panic
RunOutput(pins, seg_order, node_order, pin_pos, build) ==
    LET tree == NetTree_new(pins, seg_order, node_order, pin_pos)
        asserted == UnionFind_done(tree.union_find)
                    /\ tree.uf_cnt + 1 = VecLen(tree.nodes)
    IN IF tree.panic \/ (build = "on" /\ ~asserted) THEN <<"panic">>
       ELSE fmt(tree.nodes, net.id)

\* the orders in which the position catalogue of the input may iterate
KeyOrders(seg_order) == Orders(DOMAIN positions(conn_pins, seg_order, pin_position))

\* C11: determinism.  The output of a run on the input is the output of every
\* other run of the same build on the same input, whatever the order in
\* which the segment set and the position catalogue iterate.
C11_Determinism ==
    (pc = "emitted" /\ pass = 1) =>
        \A seg_order \in Orders(segments) :
            \A node_order \in KeyOrders(seg_order) :
                RunOutput(conn_pins, seg_order, node_order, pin_position,
                          debug_assertions) = output

\* ------------------------------------------------- a UnionFind of its own
\* the sizes of the UnionFind range over 0..MaxN
MaxN == 4

\* NetTree::new and the emitter are not in use
NetIdle ==
    /\ conn_pins = <<>>
    /\ pin_position = <<>>
    /\ segments = {}
    /\ nodes = EmptyVec
    /\ atomic = <<>>
    /\ cursor = 0
    /\ pass = 1
    /\ output = <<>>
    /\ emitted_edges = {}

net_vars == <<debug_assertions, conn_pins, pin_position, segments, nodes, atomic,
              cursor, pass, output, emitted_edges>>

\* what the calls on a UnionFind of its own leave alone
uf_frame == <<net_vars, codec_ext, cap_ext, main_ext, load_ext>>

\* a call of op with arguments a and b that returned ret, on the structure
\* before, when the unions of joined had returned true
Call(op, a, b, ret, before, joined) ==
    [op |-> op, a |-> a, b |-> b, ret |-> ret, before |-> before, joined |-> joined]

\* UnionFind::new(n) for a size n of 0..MaxN
UF_Init ==
    /\ \E n \in 0..MaxN :
          /\ union_find = UnionFind_new(n)
          /\ uf_call = Call("new", n, n, None, EmptyVec, {})
    /\ uf_cnt = 0
    /\ uf_joined = {}
    /\ pc = "calls"
    /\ debug_assertions = "unobserved"
    /\ NetIdle
    /\ CodecIdle /\ CapIdle /\ MainIdle /\ LoadIdle

\* UnionFind::union(a, b); the index UnionFind_len is the one out of bounds,
\* on which expect("Index out of bounds") panics
UF_union ==
    /\ pc = "calls"
    /\ \E a, b \in 0..UnionFind_len(union_find) :
          LET u == union_checked(union_find, a, b) IN
          /\ union_find' = u.uf
          /\ uf_call' = Call("union", a, b, u.ret, union_find, uf_joined)
          /\ IF u.ret = None
             THEN /\ pc' = "panic"
                  /\ UNCHANGED <<uf_cnt, uf_joined>>
             ELSE /\ pc' = "calls"
                  /\ uf_cnt' = IF u.ret = Some(TRUE) THEN uf_cnt + 1 ELSE uf_cnt
                  /\ uf_joined' = IF u.ret = Some(TRUE) THEN uf_joined \cup {<<a, b>>}
                                  ELSE uf_joined
    /\ UNCHANGED uf_frame

\* UnionFind::find_mut(index)
UF_find_mut ==
    /\ pc = "calls"
    /\ \E x \in 0..UnionFind_len(union_find) :
          LET r == find_mut(union_find, x) IN
          /\ union_find' = r.uf
          /\ uf_call' = Call("find_mut", x, x, r.ans, union_find, uf_joined)
    /\ UNCHANGED <<uf_cnt, uf_joined, pc, uf_frame>>

\* UnionFind::find(index)
UF_find ==
    /\ pc = "calls"
    /\ \E x \in 0..UnionFind_len(union_find) :
          uf_call' = Call("find", x, x, find(union_find, x), union_find, uf_joined)
    /\ UNCHANGED <<union_find, uf_cnt, uf_joined, pc, uf_frame>>

\* UnionFind::done()
UF_done ==
    /\ pc = "calls"
    /\ uf_call' = Call("done", 0, 0, Some(UnionFind_done(union_find)), union_find,
                       uf_joined)
    /\ UNCHANGED <<union_find, uf_cnt, uf_joined, pc, uf_frame>>

UF_Next == UF_union \/ UF_find_mut \/ UF_find \/ UF_done

SpecUF == UF_Init /\ [][UF_Next]_vars

\* -------------------------------------------- what the claims on UnionFind
\* speak of
\* the representative of an in-range element
Rep(uf, x) == find(uf, x)[1]

\* the partition of the elements into components
Partition(uf) == {{y \in DOMAIN uf : find(uf, y) = find(uf, x)} : x \in DOMAIN uf}

\* the last call was union(a, b) with both arguments in range
UnionInRange == uf_call.op = "union" /\ uf_call.ret # None

\* C12: union(a, b) with in-range arguments returns true iff a and b had
\* different representatives immediately before the call, a and b have the
\* same representative after it, and as long as all calls were in range the
\* number of calls that returned true is the size minus the number of
\* components.
C12_UnionReturn ==
    /\ UnionInRange =>
          /\ uf_call.ret = Some(find(uf_call.before, uf_call.a)
                                    # find(uf_call.before, uf_call.b))
          /\ find(union_find, uf_call.a) = find(union_find, uf_call.b)
    /\ pc = "calls" =>
          uf_cnt = UnionFind_len(union_find) - Cardinality(Partition(union_find))

\* a union that returns false after two that returned true, on four elements
C12_Witness ==
    /\ UnionInRange
    /\ uf_call.ret = Some(FALSE)
    /\ uf_call.a # uf_call.b
    /\ uf_cnt = 2
    /\ UnionFind_len(union_find) = 4

\* every element has the same representative
SameRepresentative(uf) == \A x, y \in DOMAIN uf : find(uf, x) = find(uf, y)

\* C13 as stated: for every size, 0 and 1 included, done() returns true iff
\* every element has the same representative.
C13_DoneIffSameRep ==
    uf_call.op = "done" => (uf_call.ret = Some(SameRepresentative(union_find)))

\* C13: done() returns true iff the structure has at least one element and
\* every element has the same representative; on the empty structure it
\* returns false.
C13_DoneIffOneComponent ==
    uf_call.op = "done" =>
        uf_call.ret = Some(UnionFind_len(union_find) >= 1
                           /\ SameRepresentative(union_find))

\* done() returns true on three elements after two unions
C13_Witness ==
    /\ uf_call.op = "done"
    /\ uf_call.ret = Some(TRUE)
    /\ UnionFind_len(union_find) = 3
    /\ uf_cnt = 2

\* C14: once union(a, b) has returned true, a later in-range union(a, b) or
\* union(b, a) returns false and leaves the partition as it was; and in every
\* state find(find(x)) = find(x) for every in-range x.
C14_Idempotence ==
    /\ (/\ UnionInRange
        /\ (<<uf_call.a, uf_call.b>> \in uf_call.joined
            \/ <<uf_call.b, uf_call.a>> \in uf_call.joined)) =>
          /\ uf_call.ret = Some(FALSE)
          /\ Partition(union_find) = Partition(uf_call.before)
    /\ \A x \in DOMAIN union_find :
          find(union_find, Rep(union_find, x)) = find(union_find, x)

\* union(b, a) after union(a, b) had returned true: it returns false, and its
\* path compression has changed the heads but not the partition
C14_Witness ==
    /\ UnionInRange
    /\ <<uf_call.b, uf_call.a>> \in uf_call.joined
    /\ uf_call.ret = Some(FALSE)
    /\ union_find # uf_call.before

\* the element reached from x by following k heads
RECURSIVE Walk(_, _, _)
Walk(uf, x, k) == IF k = 0 \/ x \notin DOMAIN uf THEN x ELSE Walk(uf, uf[x].head, k - 1)

\* x is a representative
IsRoot(uf, x) == x \in DOMAIN uf /\ uf[x].head = x

\* C20: in every state reached from UnionFind::new(n) by union and find_mut
\* calls, an element that comes back to itself along the heads is its own
\* head, following the heads from any element reaches a root, and the height
\* of an element that is a representative before and after a call has not
\* decreased.
C20_AcyclicRanked ==
    /\ \A x \in DOMAIN union_find :
          /\ \A k \in 1..UnionFind_len(union_find) :
                Walk(union_find, x, k) = x => union_find[x].head = x
          /\ IsRoot(union_find, Walk(union_find, x, UnionFind_len(union_find)))
    /\ uf_call.op # "new" =>
          \A x \in DOMAIN union_find :
              (IsRoot(uf_call.before, x) /\ IsRoot(union_find, x)) =>
                  union_find[x].height >= uf_call.before[x].height

\* a find_mut that has shortened a path below a root of height 2
C20_Witness ==
    /\ uf_call.op = "find_mut"
    /\ union_find # uf_call.before
    /\ \E x \in DOMAIN union_find : IsRoot(union_find, x) /\ union_find[x].height = 2

\* ------------------------------------------------------ the identifier codec
\* names of the inputs have at most MaxNameLen characters
MaxNameLen == 3
\* ids of the inputs range over 0..MaxId, and usize::MAX
MaxId == 20

\* the entity classes and FactoryID::prefix / PrefixParse::prefix of each
Classes == {"Layer", "MasterPin", "Blockage", "MasterCell", "Cell", "Net"}

prefix(class) ==
    CASE class = "Layer" -> <<"M">>
      [] class = "MasterPin" -> <<"P">>
      [] class = "Blockage" -> <<"B">>
      [] class = "MasterCell" -> <<"M", "C">>
      [] class = "Cell" -> <<"C">>
      [] class = "Net" -> <<"N">>

\* the two traits that implement the codec
Traits == {"FactoryID", "PrefixParse"}

\* what a call ends with: a value, an Err, or a panic
Ok(v) == [tag |-> "Ok", val |-> <<v>>]
Err == [tag |-> "Err", val |-> <<>>]
Panic == [tag |-> "panic", val |-> <<>>]

IsDigit(c) == \E d \in 1..10 : Digits[d] = c
DigitVal(c) == (CHOOSE d \in 1..10 : Digits[d] = c) - 1

\* the digit loop of usize::from_str: None on a character that is no digit
\* and on a value above usize::MAX
RECURSIVE parse_digits(_, _)
parse_digits(s, acc) ==
    IF s = <<>> THEN Some(acc)
    ELSE IF ~IsDigit(Head(s)) THEN None
    ELSE IF acc > (UsizeMax - DigitVal(Head(s))) \div 10 THEN None
    ELSE parse_digits(Tail(s), acc * 10 + DigitVal(Head(s)))

\* str::parse::<usize>: an optional "+", then at least one digit
parse_usize(s) ==
    IF s = <<>> THEN None
    ELSE LET digits == IF Head(s) = "+" THEN Tail(s) ELSE s
         IN IF digits = <<>> THEN None ELSE parse_digits(digits, 0)

\* name[length..]: the characters after the first length ones; the slice
\* panics when the name is shorter
slice_from(name, length) ==
    IF length > Len(name) THEN None ELSE Some(SubSeq(name, length + 1, Len(name)))

\* n - 1 on usize: below zero a build with debug assertions panics and a
\* release build wraps to usize::MAX
sub_one(n, build) ==
    IF n = 0 THEN (IF build = "on" THEN Panic ELSE Ok(UsizeMax)) ELSE Ok(n - 1)

\* FactoryID::from_str
FactoryID_from_str(class, name, build) ==
    LET rest == slice_from(name, Len(prefix(class))) IN
    IF rest = None THEN Panic
    ELSE LET parsed == parse_usize(rest[1]) IN
         IF parsed = None THEN Err ELSE sub_one(parsed[1], build)

\* FactoryID::from_numeric: id + 1 overflows at usize::MAX, where a build with
\* debug assertions panics and a release build wraps to 0
FactoryID_from_numeric(class, id, build) ==
    IF id = UsizeMax
    THEN (IF build = "on" THEN Panic ELSE Ok(prefix(class) \o usize_to_string(0)))
    ELSE Ok(from_numeric(prefix(class), id))

\* PrefixParse::to_numeric: expect("Expect usize") panics where from_str
\* returns the error
PrefixParse_to_numeric(class, name, build) ==
    LET rest == slice_from(name, Len(prefix(class))) IN
    IF rest = None THEN Panic
    ELSE LET parsed == parse_usize(rest[1]) IN
         IF parsed = None THEN Panic ELSE sub_one(parsed[1], build)

\* PrefixParse::to_string
PrefixParse_to_string(class, id, build) == FactoryID_from_numeric(class, id, build)

\* the characters of the names of the inputs
Alphabet == {"M", "P", "B", "C", "N", "X", "+", "-", "0", "1", "5"}

Names == UNION {[1..k -> Alphabet] : k \in 0..MaxNameLen}

Ids == (0..MaxId) \cup {UsizeMax}

\* a call of op of trait for class with argument arg that ended with ret
CodecCall(trait, class, op, arg, ret) ==
    [trait |-> trait, class |-> class, op |-> op, arg |-> arg, ret |-> ret]

\* what the calls of the codec leave alone
codec_frame == <<debug_assertions, net_vars, union_find, uf_cnt, pc, uf_ext, cap_ext,
                 main_ext, load_ext>>

\* the call that is about to be made
Pending == [tag |-> "pending", val |-> <<>>]

\* the build is fixed before the run; one call of the codec is about to be
\* made, on any class with any name or id
Codec_Init ==
    /\ debug_assertions \in {"on", "off"}
    /\ \E class \in Classes :
          \/ \E name \in Names :
                codec_call \in {CodecCall("FactoryID", class, "from_str", name, Pending),
                                CodecCall("PrefixParse", class, "to_numeric", name, Pending)}
          \/ \E id \in Ids :
                codec_call \in {CodecCall("FactoryID", class, "from_numeric", id, Pending),
                                CodecCall("PrefixParse", class, "to_string", id, Pending)}
    /\ pc = "codec"
    /\ union_find = EmptyVec
    /\ uf_cnt = 0
    /\ NetIdle
    /\ UfIdle /\ CapIdle /\ MainIdle /\ LoadIdle

\* the call is made and ends with ret
Returns(ret) ==
    /\ pc = "codec"
    /\ codec_call.ret = Pending
    /\ codec_call' = [codec_call EXCEPT !.ret = ret]
    /\ UNCHANGED codec_frame

Codec_from_str ==
    /\ codec_call.op = "from_str"
    /\ Returns(FactoryID_from_str(codec_call.class, codec_call.arg, debug_assertions))

Codec_from_numeric ==
    /\ codec_call.op = "from_numeric"
    /\ Returns(FactoryID_from_numeric(codec_call.class, codec_call.arg, debug_assertions))

Codec_to_numeric ==
    /\ codec_call.op = "to_numeric"
    /\ Returns(PrefixParse_to_numeric(codec_call.class, codec_call.arg, debug_assertions))

Codec_to_string ==
    /\ codec_call.op = "to_string"
    /\ Returns(PrefixParse_to_string(codec_call.class, codec_call.arg, debug_assertions))

Codec_Next == Codec_from_str \/ Codec_from_numeric \/ Codec_to_numeric \/ Codec_to_string

SpecCodec == Codec_Init /\ [][Codec_Next]_vars

\* ----------------------------------------- what the claims on the codec
\* speak of
IsDecode == codec_call.op \in {"from_str", "to_numeric"} /\ codec_call.ret # Pending
IsEncode == codec_call.op \in {"from_numeric", "to_string"} /\ codec_call.ret # Pending

\* decode and encode of the trait of the last call, in the build of the run
decode(name) ==
    IF codec_call.trait = "FactoryID"
    THEN FactoryID_from_str(codec_call.class, name, debug_assertions)
    ELSE PrefixParse_to_numeric(codec_call.class, name, debug_assertions)

encode(id) ==
    IF codec_call.trait = "FactoryID"
    THEN FactoryID_from_numeric(codec_call.class, id, debug_assertions)
    ELSE PrefixParse_to_string(codec_call.class, id, debug_assertions)

\* name starts with the characters of pre
HasPrefix(name, pre) == Len(name) >= Len(pre) /\ SubSeq(name, 1, Len(pre)) = pre

\* the characters of name after those of pre
Suffix(name, pre) == SubSeq(name, Len(pre) + 1, Len(name))

\* s is a numeral of a positive integer: digits only, at least one of them,
\* not all of them zero
PositiveInteger(s) ==
    /\ s # <<>>
    /\ \A i \in DOMAIN s : IsDigit(s[i])
    /\ \E i \in DOMAIN s : s[i] # "0"

\* the numeral has no leading zero and its value is at most usize::MAX
CanonicalUsize(s) == PositiveInteger(s) /\ s[1] # "0" /\ parse_digits(s, 0) # None

\* name is the prefix of the class followed by a positive integer
WellFormed(class, name) ==
    HasPrefix(name, prefix(class)) /\ PositiveInteger(Suffix(name, prefix(class)))

\* name is the prefix of the class followed by the digits of n
IsPrefixThenNumber(class, name, n) ==
    /\ HasPrefix(name, prefix(class))
    /\ Suffix(name, prefix(class)) = usize_to_string(n)

\* C15 as stated: for every id, encode(id) is the prefix followed by id + 1
\* and decode(encode(id)) = id; for every name that is the prefix followed by
\* a positive integer, encode(decode(name)) = name.
C15_RoundTrip ==
    /\ IsEncode =>
          /\ codec_call.ret.tag = "Ok"
          /\ codec_call.arg < UsizeMax
          /\ IsPrefixThenNumber(codec_call.class, codec_call.ret.val[1], codec_call.arg + 1)
          /\ decode(codec_call.ret.val[1]) = Ok(codec_call.arg)
    /\ (IsDecode /\ WellFormed(codec_call.class, codec_call.arg)) =>
          /\ codec_call.ret.tag = "Ok"
          /\ encode(codec_call.ret.val[1]) = Ok(codec_call.arg)

\* C15: for every id below usize::MAX, encode(id) is the prefix followed by
\* the digits of id + 1 and decode(encode(id)) = id; for every name that is
\* the prefix followed by the digits, without sign and leading zero, of an
\* integer of 1..usize::MAX, encode(decode(name)) = name.  Both hold of both
\* traits in both builds.
C15_RoundTripInRange ==
    /\ (IsEncode /\ codec_call.arg < UsizeMax) =>
          /\ codec_call.ret.tag = "Ok"
          /\ IsPrefixThenNumber(codec_call.class, codec_call.ret.val[1], codec_call.arg + 1)
          /\ decode(codec_call.ret.val[1]) = Ok(codec_call.arg)
    /\ (/\ IsDecode
        /\ HasPrefix(codec_call.arg, prefix(codec_call.class))
        /\ CanonicalUsize(Suffix(codec_call.arg, prefix(codec_call.class)))) =>
          /\ codec_call.ret.tag = "Ok"
          /\ encode(codec_call.ret.val[1]) = Ok(codec_call.arg)

\* "M10" decoded as a Layer by FactoryID::from_str is id 9
C15_Witness ==
    /\ codec_call.op = "from_str"
    /\ codec_call.class = "Layer"
    /\ codec_call.arg = <<"M", "1", "0">>
    /\ codec_call.ret = Ok(9)

\* the name does not start with the prefix of the class, or the part after
\* the prefix is not a positive integer
Malformed(class, name) == ~WellFormed(class, name)

\* C16: decode of a name that does not start with the prefix of the class,
\* or whose part after the prefix is not a positive integer, returns an error
\* and no id.
C16_MalformedFails ==
    (IsDecode /\ Malformed(codec_call.class, codec_call.arg)) => codec_call.ret = Err

\* ------------------------------------------------- the grid capacity map
\* the grid has 1..MaxDim rows and 1..MaxDim columns
MaxDim == 2
\* the default supply of a layer ranges over 0..MaxSupply
MaxSupply == 1
\* the deltas of the supply records range over -MaxDelta..MaxDelta
MaxDelta == 2
\* at most MaxRecords NumNonDefaultSupplyGGrid records are read
MaxRecords == 1

\* isize::MAX of the width whose usize::MAX is UsizeMax
IsizeMax == 1073741823

\* `u as isize`: the values above isize::MAX are the negative ones
as_isize(u) == IF u > IsizeMax THEN (u - UsizeMax) - 1 ELSE u

\* `i as usize`: a negative value wraps to the top of usize
as_usize(i) == IF i < 0 THEN UsizeMax + (i + 1) ELSE i

\* Pair::size
size(dim) == dim[1] * dim[2]

\* a Layer as Chip::read_file creates it: vec![supply; grid_size]
Layer(idx, dim, supply) ==
    [id |-> idx, direction |-> "H", dim |-> dim,
     capacity |-> [i \in 0..(size(dim) - 1) |-> supply]]

\* row * self.dim.y + col on usize: None where the build panics on overflow,
\* the wrapped value where it does not
flat_index(dim, r, c, build) ==
    IF r > IsizeMax \/ c > IsizeMax
    THEN (IF r > (UsizeMax - c) \div dim[2]
          THEN (IF build = "on" THEN None
                ELSE Some(as_usize(as_isize(r) * dim[2] + as_isize(c))))
          ELSE Some(r * dim[2] + c))
    ELSE Some(r * dim[2] + c)

\* Layer::get_capacity and Layer::get_capacity_mut: the index into capacity
\* that the access reaches, Ok(None) when Vec::get returns None
get_capacity_index(layer, r, c, build) ==
    LET idx == flat_index(layer.dim, r, c, build) IN
    IF idx = None THEN Panic
    ELSE IF idx[1] \in DOMAIN layer.capacity THEN Ok(Some(idx[1])) ELSE Ok(None)

\* Layer::get_capacity: the value read
get_capacity(layer, r, c, build) ==
    LET at == get_capacity_index(layer, r, c, build) IN
    IF at.tag # "Ok" THEN at
    ELSE IF at.val[1] = None THEN Ok(None)
    ELSE Ok(Some(layer.capacity[at.val[1][1]]))

\* Chip::get_layer_mut
get_layer_mut(ls, idx) == IF idx \in DOMAIN ls THEN Some(idx) ELSE None

\* one NumNonDefaultSupplyGGrid record of Chip::read_file: the layers after
\* it, or a panic
supply_record(ls, r, c, l, val, build) ==
    LET r0 == sub_one(r, build)
        c0 == sub_one(c, build)
        l0 == sub_one(l, build)
    IN IF r0.tag # "Ok" \/ c0.tag # "Ok" \/ l0.tag # "Ok" THEN Panic
       ELSE LET layer_mut == get_layer_mut(ls, l0.val[1]) IN
            IF layer_mut = None THEN Panic
            ELSE LET lidx == layer_mut[1]
                     at == get_capacity_index(ls[lidx], r0.val[1], c0.val[1], build)
                 IN IF at.tag # "Ok" \/ at.val[1] = None THEN Panic
                    ELSE LET i == at.val[1][1]
                             cell_capacity == ls[lidx].capacity[i]
                         IN Ok([ls EXCEPT ![lidx].capacity[i] =
                                    as_usize(as_isize(cell_capacity) + val)])

\* a supply record or a capacity access with its arguments, its result and
\* the layers before it
CapCall(op, l, r, c, val, ret, before) ==
    [op |-> op, l |-> l, r |-> r, c |-> c, val |-> val, ret |-> ret, before |-> before]

\* what the capacity map leaves alone
cap_frame == <<debug_assertions, net_vars, union_find, uf_cnt, uf_ext, codec_ext,
               main_ext, load_ext>>

\* Chip::read_file up to the NumNonDefaultSupplyGGrid section: the
\* dimensions of the grid and the layers with their default supply
Cap_Init ==
    /\ debug_assertions \in {"on", "off"}
    /\ \E dim \in (1..MaxDim) \X (1..MaxDim), num_layers \in 1..MaxLay,
          supply \in 0..MaxSupply :
          layers = [idx \in 0..(num_layers - 1) |-> Layer(idx, dim, supply)]
    /\ cap_call = NoCall
    /\ cap_records = 0
    /\ pc = "supply"
    /\ union_find = EmptyVec
    /\ uf_cnt = 0
    /\ NetIdle
    /\ UfIdle /\ CodecIdle /\ MainIdle /\ LoadIdle

\* one record <rowIdx> <colIdx> <LayIdx> <incrOrDecrValue>
Cap_Record ==
    /\ pc = "supply"
    /\ cap_records < MaxRecords
    /\ \E r, c \in 0..(MaxDim + 1), l \in 0..(MaxLay + 1), val \in (-MaxDelta)..MaxDelta :
          LET res == supply_record(layers, r, c, l, val, debug_assertions) IN
          /\ cap_call' = CapCall("record", l, r, c, val, res.tag, layers)
          /\ IF res.tag = "Ok"
             THEN /\ layers' = res.val[1]
                  /\ pc' = "supply"
             ELSE /\ pc' = "panic"
                  /\ UNCHANGED layers
    /\ cap_records' = cap_records + 1
    /\ UNCHANGED cap_frame

\* Layer::get_capacity(row, col) on a layer of the chip
Cap_get_capacity ==
    /\ pc = "supply"
    /\ cap_call.op # "get_capacity"
    /\ \E l \in DOMAIN layers, r, c \in 0..(MaxDim + 1) :
          cap_call' = CapCall("get_capacity", l, r, c, 0,
                              get_capacity(layers[l], r, c, debug_assertions), layers)
    /\ UNCHANGED <<layers, cap_records, pc, cap_frame>>

Cap_Next == Cap_Record \/ Cap_get_capacity

SpecCap == Cap_Init /\ [][Cap_Next]_vars

\* ------------------------------------- what the claims on the capacity map
\* speak of
\* (row, col) is a cell of a grid of dimension dim
InGrid(dim, r, c) == r >= 0 /\ r < dim[1] /\ c >= 0 /\ c < dim[2]

\* capacity[row, col] of layer l in the row-major storage
CellCapacity(ls, l, r, c) == ls[l].capacity[r * ls[l].dim[2] + c]

\* the cells of the chip: layer, row and column
Cells(ls) == {x \in (DOMAIN ls) \X (0..MaxDim) \X (0..MaxDim) : InGrid(ls[x[1]].dim, x[2], x[3])}

\* the last step was a supply record whose 1-based layer is a layer
RecordOnLayer == cap_call.op = "record" /\ (cap_call.l - 1) \in DOMAIN cap_call.before

\* the last step was a supply record that addresses a cell of the grid
RecordOnCell ==
    /\ RecordOnLayer
    /\ InGrid(cap_call.before[cap_call.l - 1].dim, cap_call.r - 1, cap_call.c - 1)

\* C17: a supply record that addresses a grid cell adds its delta to the
\* capacity of that cell and leaves every other cell as it was; when the
\* result would be negative the load fails with an error and the capacities
\* stay as they were.
C17_SupplyDelta ==
    RecordOnCell =>
        LET old == CellCapacity(cap_call.before, cap_call.l - 1, cap_call.r - 1,
                                cap_call.c - 1)
        IN IF old + cap_call.val >= 0
           THEN /\ cap_call.ret = "Ok"
                /\ \A x \in Cells(layers) :
                      CellCapacity(layers, x[1], x[2], x[3]) =
                          IF x = <<cap_call.l - 1, cap_call.r - 1, cap_call.c - 1>>
                          THEN old + cap_call.val
                          ELSE CellCapacity(cap_call.before, x[1], x[2], x[3])
           ELSE /\ cap_call.ret = "Err"
                /\ layers = cap_call.before

\* C18: get_capacity(row, col) returns the capacity of cell (row, col) iff
\* row < dim.x and col < dim.y and none otherwise; a supply record whose
\* column or row is outside the grid finds no cell through get_capacity_mut
\* and writes no capacity.
C18_BoundsChecked ==
    /\ cap_call.op = "get_capacity" =>
          cap_call.ret =
              IF InGrid(layers[cap_call.l].dim, cap_call.r, cap_call.c)
              THEN Ok(Some(CellCapacity(layers, cap_call.l, cap_call.r, cap_call.c)))
              ELSE Ok(None)
    /\ (RecordOnLayer /\ ~RecordOnCell) => layers = cap_call.before

\* ------------------------------------------------------------------- main
\* Chip::run performs at most MaxSteps optimisation steps
MaxSteps == 2

\* the values of the time limits --sec, --min and --hr
Limits == {None, Some(1), Some(2)}

\* what main leaves alone
main_frame == <<debug_assertions, net_vars, union_find, uf_cnt, pc, uf_ext, codec_ext,
                cap_ext, load_ext>>

\* Args::from_args(): the files may be missing on the command line, each
\* time limit is optional
Main_Init ==
    /\ args \in [infile : {None, Some("in")}, outfile : {None, Some("out")},
                 sec : Limits, min : Limits, hr : Limits]
    /\ main_pc = "args"
    /\ expired = FALSE
    /\ chip_state = 0
    /\ outfile = None
    /\ debug_assertions = "unobserved"
    /\ pc = "main"
    /\ union_find = EmptyVec
    /\ uf_cnt = 0
    /\ NetIdle
    /\ UfIdle /\ CodecIdle /\ CapIdle /\ LoadIdle

\* main: ok_or(..)? on the two file names
Main_args ==
    /\ main_pc = "args"
    /\ main_pc' = IF args.infile = None \/ args.outfile = None THEN "exit_err"
                  ELSE "read_file"
    /\ UNCHANGED <<args, expired, chip_state, outfile, main_frame>>

\* main: chip.read_file(infile)?  The file is read (the chip is in its
\* loaded state 0), cannot be opened (Err), or fails one of the loader's
\* assertions (panic).
Main_read_file ==
    /\ main_pc = "read_file"
    /\ \E res \in {"run", "exit_err", "panic"} : main_pc' = res
    /\ UNCHANGED <<args, expired, chip_state, outfile, main_frame>>

\* Chip::run, one iteration of its loop within the time budget: an
\* optimisation step changes the state of the chip
Run_Step ==
    /\ main_pc = "run"
    /\ chip_state < MaxSteps
    /\ chip_state' = chip_state + 1
    /\ UNCHANGED <<main_pc, args, expired, outfile, main_frame>>

\* Chip::run, the iteration at which the time budget has expired: the
\* assertion now - start < duration fails with TimeExpired, which run
\* returns to its caller
Run_TimeExpired ==
    /\ main_pc = "run"
    /\ expired' = TRUE
    /\ main_pc' = "run_err"
    /\ UNCHANGED <<args, chip_state, outfile, main_frame>>

\* Chip::run returns Ok(()) within the time budget
Run_Return ==
    /\ main_pc = "run"
    /\ main_pc' = "run_ok"
    /\ UNCHANGED <<args, expired, chip_state, outfile, main_frame>>

\* main: chip.run()?  An Err of run is returned from main at once.
Main_run ==
    /\ main_pc \in {"run_ok", "run_err"}
    /\ main_pc' = IF main_pc = "run_ok" THEN "write_file" ELSE "exit_err"
    /\ UNCHANGED <<args, expired, chip_state, outfile, main_frame>>

\* main: chip.write_file(outfile)?; Ok(())  The current state is written, or
\* the file cannot be written (Err).
Main_write_file ==
    /\ main_pc = "write_file"
    /\ \/ /\ outfile' = Some(chip_state)
          /\ main_pc' = "exit_ok"
       \/ /\ main_pc' = "exit_err"
          /\ UNCHANGED outfile
    /\ UNCHANGED <<args, expired, chip_state, main_frame>>

Main_Next ==
    Main_args \/ Main_read_file \/ Run_Step \/ Run_TimeExpired \/ Run_Return \/ Main_run
    \/ Main_write_file

SpecMain == Main_Init /\ [][Main_Next]_vars

\* main has returned
Exited == main_pc \in {"exit_ok", "exit_err"}

MaxDeepN == 8

\* the unions that build a tree of height 3 on 8 elements, in the order of
\* the calls
DeepUnions == <<<<0, 1>>, <<2, 3>>, <<4, 5>>, <<6, 7>>, <<1, 3>>, <<5, 7>>, <<3, 7>>>>

\* the structure after the first k calls union(a, b) of pairs
RECURSIVE unions(_, _, _)
unions(uf, pairs, k) ==
    IF k = 0 THEN uf
    ELSE union_checked(unions(uf, pairs, k - 1), pairs[k][1], pairs[k][2]).uf

\* UnionFind::new(MaxDeepN) followed by the calls of DeepUnions, the last of
\* which is the call on record
UF_Deep_Init ==
    /\ LET k == Len(DeepUnions)
           before == unions(UnionFind_new(MaxDeepN), DeepUnions, k - 1)
           joined == {DeepUnions[i] : i \in 1..(k - 1)}
           u == union_checked(before, DeepUnions[k][1], DeepUnions[k][2])
       IN /\ union_find = u.uf
          /\ uf_call = Call("union", DeepUnions[k][1], DeepUnions[k][2], u.ret,
                            before, joined)
          /\ uf_cnt = k
          /\ uf_joined = joined \cup {DeepUnions[k]}
    /\ pc = "calls"
    /\ debug_assertions = "unobserved"
    /\ NetIdle
    /\ CodecIdle /\ CapIdle /\ MainIdle /\ LoadIdle

\* a UnionFind of its own, fresh or with the chains of DeepUnions
UF_Any_Init == UF_Init \/ UF_Deep_Init

SpecUFDeep == UF_Any_Init /\ [][UF_Next]_vars

\* the elements on the parent chain from x, the representative included
Chain(uf, x) == {Walk(uf, x, k) : k \in 0..UnionFind_len(uf)}

\* the last call was find_mut(x)
IsFindMut == uf_call.op = "find_mut"

\* C21: find_mut(x) returns what find(x) returned immediately before the
\* call; afterwards every element on the former parent chain from x has the
\* representative as its head, the heads of the elements off that chain and
\* all heights are what they were, and the partition into components is what
\* it was.
C21_FindMutFrame ==
    IsFindMut =>
        LET x == uf_call.a
            before == uf_call.before
        IN /\ uf_call.ret = find(before, x)
           /\ DOMAIN union_find = DOMAIN before
           /\ \A y \in DOMAIN before :
                 /\ union_find[y].height = before[y].height
                 /\ (x \in DOMAIN before /\ y \in Chain(before, x)) =>
                       union_find[y].head = Rep(before, x)
                 /\ (x \in DOMAIN before /\ y \notin Chain(before, x)) =>
                       union_find[y].head = before[y].head
                 /\ x \notin DOMAIN before => union_find[y].head = before[y].head
           /\ Partition(union_find) = Partition(before)

\* a find_mut(x) that has rewritten the heads of two elements, x and its
\* former head, while a third element off the chain kept a head that is not
\* the representative
C21_Witness ==
    /\ IsFindMut
    /\ uf_call.a \in DOMAIN uf_call.before
    /\ LET x == uf_call.a
           before == uf_call.before
           p == before[x].head
       IN /\ p # x
          /\ union_find[x].head # before[x].head
          /\ union_find[p].head # before[p].head
          /\ \E y \in DOMAIN before :
                /\ y \notin Chain(before, x)
                /\ union_find[y].head # Rep(union_find, y)

\* ------------------------------------------------------- the emitter's walk
\* the lines of the output written by the walk, after one span line per node
WalkLines == SubSeq(output, VecLen(nodes) + 1, Len(output))

\* the nodes the walk from the first node can reach
Reached == IF VecLen(nodes) = 0 THEN {} ELSE Closure(nodes, {0})

\* C22: the walk of the emitter from nodes[0] ends for every tree that
\* NetTree::new returns: the recursion never comes back to a node of its own
\* path, and it writes three lines for each edge of the component of
\* nodes[0], hence finitely many.
C22_WalkTerminates ==
    pc = "emitted" =>
        /\ \A i \in DOMAIN output : output[i] # StackOverflow
        /\ Len(output) >= VecLen(nodes)
        /\ Len(WalkLines) = IF Reached = {} THEN 0 ELSE 3 * (Cardinality(Reached) - 1)

\* an emitted tree in which the walk goes two edges deep: a node that
\* nodes[0] reaches but does not point to
C22_Witness ==
    /\ pc = "emitted"
    /\ pass = 1
    /\ \E i \in Reached : i # 0 /\ i \notin Neighbours(nodes, 0)
    /\ Len(WalkLines) = 6

\* ------------------------------------------------------ the axis convention
\* position q lies from position p in the planar direction d: Right and Left
\* change the row within a col, Up and Down the col within a row
InDirection(p, q, d) ==
    CASE d = "Right" -> q[2] = p[2] /\ q[1] > p[1]
      [] d = "Left" -> q[2] = p[2] /\ q[1] < p[1]
      [] d = "Up" -> q[1] = p[1] /\ q[2] > p[2]
      [] d = "Down" -> q[1] = p[1] /\ q[2] < p[2]

\* node j is the nearest node from node i in direction d
NearestNode(ns, i, j, d) ==
    /\ InDirection(ns[i].position, ns[j].position, d)
    /\ \A k \in DOMAIN ns :
          ~(/\ InDirection(ns[i].position, ns[k].position, d)
            /\ InDirection(ns[k].position, ns[j].position, d))

\* every pointer of ns points to the nearest node in the direction of its slot
PointersToNearest(ns) ==
    \A i \in DOMAIN ns : \A d \in Planar :
        index(ns[i], d) # None =>
            /\ index(ns[i], d)[1].index \in DOMAIN ns
            /\ NearestNode(ns, i, index(ns[i], d)[1].index, d)

\* a step of the Kruskal loop leaves the target of every slot that is set
SlotsKeepTarget ==
    (pc = "loop" /\ pc' \in {"loop", "panic"}) =>
        \A i \in DOMAIN nodes : \A d \in Planar :
            index(nodes[i], d) # None =>
                /\ index(nodes'[i], d) # None
                /\ index(nodes'[i], d)[1].index = index(nodes[i], d)[1].index

\* C23: every pointer that NetTree::new installs points to the nearest node
\* of the net in the direction of its slot, Right and Left along the rows of
\* a col and Up and Down along the cols of a row, the convention of both
\* into_atomic_segments and connect; and no step of the construction gives a
\* slot that is set another target.
C23_NearestInDirection ==
    /\ [](TreeExists => PointersToNearest(nodes))
    /\ [][SlotsKeepTarget]_vars

\* a tree with three nodes in one col, in which the right slot of the lowest
\* points to the middle one and the left slot of the highest as well
C23_Witness ==
    /\ pc = "done" /\ pass = 1
    /\ \E i, j, k \in DOMAIN nodes :
          /\ index(nodes[i], "Right") = Some(Pointer(j, 1))
          /\ index(nodes[k], "Left") # None
          /\ index(nodes[k], "Left")[1].index = j
          /\ InDirection(nodes[i].position, nodes[k].position, "Right")
          /\ i # k

\* --------------------------------- the NumRoutes section of Chip::read_file
\* at most MaxNets nets in the NumNets section
MaxNets == 2
\* at most MaxRouteRecords records in the NumRoutes section
MaxRouteRecords == 2

\* the routes of the records: both ends in the first two rows of col 0, on
\* layer 1
RecordRoutes == {<<<<r1, 0, 1>>, <<r2, 0, 1>>>> : r1, r2 \in 0..1}

\* the net names of the records: N<k> for k from 0 to one above the number
\* of nets
RecordNames(net_count) == {from_numeric(<<"N">>, k - 1) : k \in 1..(net_count + 1)}
                              \cup {<<"N", "0">>}

\* the body of the NumRoutes loop for one record: both ids are decoded from
\* the net name by Net::to_numeric, debug_assert_eq!(id + 1, net_id) is
\* evaluated by a build with debug assertions only, and the route goes into
\* the bag routes[id], which expect("Index out of bounds") requires to exist
route_record(rs, route, net_name, build) ==
    LET net_id == PrefixParse_to_numeric("Net", net_name, build)
        id == PrefixParse_to_numeric("Net", net_name, build)
    IN IF net_id.tag # "Ok" \/ id.tag # "Ok" THEN [tag |-> "panic", val |-> rs]
       ELSE IF build = "on" /\ id.val[1] + 1 # net_id.val[1]
       THEN [tag |-> "assert", val |-> rs]
       ELSE IF id.val[1] \notin DOMAIN rs THEN [tag |-> "panic", val |-> rs]
       ELSE [tag |-> "Ok", val |-> [rs EXCEPT ![id.val[1]] = @ \cup {route}]]

\* a record with its route and net name, its outcome ret and the bags before
RouteCall(route, net_name, ret, before) ==
    [op |-> "record", route |-> route, name |-> net_name, ret |-> ret, before |-> before]

\* what the NumRoutes section leaves alone
load_frame == <<debug_assertions, net_vars, union_find, uf_cnt, uf_ext, codec_ext,
                cap_ext, main_ext>>

\* Chip::read_file up to the NumRoutes section: net_count nets are known and
\* every net has an empty bag
Load_Init ==
    /\ debug_assertions \in {"on", "off"}
    /\ \E net_count \in 0..MaxNets : net_routes = [i \in 0..(net_count - 1) |-> {}]
    /\ route_call = NoCall
    /\ route_records = 0
    /\ pc = "routes"
    /\ union_find = EmptyVec
    /\ uf_cnt = 0
    /\ NetIdle
    /\ UfIdle /\ CodecIdle /\ CapIdle /\ MainIdle

\* one record <sRow> <sCol> <sLay> <eRow> <eCol> <eLay> <netName>
Load_Record ==
    /\ pc = "routes"
    /\ route_records < MaxRouteRecords
    /\ \E route \in RecordRoutes, net_name \in RecordNames(VecLen(net_routes)) :
          LET res == route_record(net_routes, route, net_name, debug_assertions) IN
          /\ route_call' = RouteCall(route, net_name, res.tag, net_routes)
          /\ net_routes' = res.val
          /\ pc' = IF res.tag = "Ok" THEN "routes" ELSE "panic"
    /\ route_records' = route_records + 1
    /\ UNCHANGED load_frame

\* the end of the section: debug_assert_eq!(routes.len(), net_count) holds,
\* and every net is built with the NetTree::new() of chip.rs, which is
\* unimplemented!()
Load_End ==
    /\ pc = "routes"
    /\ pc' = IF VecLen(net_routes) = 0 THEN "loaded" ELSE "panic"
    /\ UNCHANGED <<net_routes, route_call, route_records, load_frame>>

Load_Next == Load_Record \/ Load_End

SpecLoad == Load_Init /\ [][Load_Next]_vars

\* the last record is well formed: its net name is N<k> with 1 <= k <= NumNets
WellFormedRecord ==
    /\ route_call.op = "record"
    /\ \E k \in 1..VecLen(route_call.before) :
          route_call.name = <<"N">> \o usize_to_string(k)

\* the k of the net name N<k> of the last record
RecordK == CHOOSE k \in 1..VecLen(route_call.before) :
               route_call.name = <<"N">> \o usize_to_string(k)

\* C24: every well-formed record with net name N<k>, 1 <= k <= NumNets, is
\* added to the bag of the net with id k - 1, the other bags stay as they
\* were, and the assertion of the loader on the two ids decoded from the net
\* name does not fail.
C24_RouteRecorded ==
    WellFormedRecord =>
        /\ route_call.ret = "Ok"
        /\ net_routes = [route_call.before EXCEPT ![RecordK - 1] = @ \cup {route_call.route}]

====
